---- MODULE Spec2Model ----
(***************************************************************************)
(* Model of coilmq.queue.QueueManager (src/coilmq/queue.py).               *)
(*                                                                         *)
(* Every public method runs under the manager's RLock, so each public      *)
(* method is one atomic action.  The queue store, the connections and the  *)
(* two schedulers are collaborators whose code is not in queue.py; they    *)
(* are modelled from their documented contracts: the store keeps one FIFO  *)
(* list per destination (enqueue at the tail, dequeue and requeue at the   *)
(* head), the schedulers are the defaults of QueueManager.__init__.        *)
(*                                                                         *)
(* A frame is its message-id and its destination; the callers give every   *)
(* frame they originate a fresh message-id.  connection.send_frame does    *)
(* not fail.  The variables op and out record the public method that ran   *)
(* last, the exception it raised if any, and what it did with frames.      *)
(***************************************************************************)
EXTENDS Integers, Sequences, FiniteSets

\* ---------------------------------------------------------------- bounds
MaxMsgs == 2        \* number of frames the callers originate
MaxTxLen == 2       \* cap on the number of frames buffered in transactions
MaxStore == 2       \* cap on the number of stored frames after a resend

\* ------------------------------------------------------------ input sets
Conns == {"c1", "c2", "c3"}
Reliable == {"c1", "c2"}          \* connection.reliable_subscriber is True
Dests == {"d1", "d2"}
NoDest == ""                      \* a frame without a destination
TxIds == {"t1", "t2"}
NoTx == "-"                       \* transaction=None
NoConn == "-"
MsgIds == 1..MaxMsgs
NoId == 0                         \* a message-id no frame carries

Frames == [id : MsgIds, dest : Dests]

VARIABLES
    _queues,              \* dict destination -> set of connections (defaultdict(set))
    _pending,             \* dict connection -> frame
    _transaction_frames,  \* dict connection -> dict transaction -> list of frames
    store,                \* the queue store: destination -> frames, head first
    nextId,               \* next message-id the callers will use
    op,                   \* the public operation that ran last, with its outcome
    out,                  \* what that operation did with frames, in order
    flight                \* per connection: frames handed to it minus ACKs that found a pending frame

vars == <<_queues, _pending, _transaction_frames, store, nextId, op, out, flight>>

\* ------------------------------------------------------- dict primitives
\* d[k] on a defaultdict(set): the value, an empty set when k is missing
Lookup(q, d) == IF d \in DOMAIN q THEN q[d] ELSE {}

\* d[k] = v
Put(q, d, v) == [x \in DOMAIN q \cup {d} |-> IF x = d THEN v ELSE q[x]]

\* del d[k]
Del(q, d) == [x \in DOMAIN q \ {d} |-> q[x]]

EmptyDict == [x \in {} |-> {}]

\* _transaction_frames[c] on the defaultdict, without inserting
TxDict(T, c) == IF c \in DOMAIN T THEN T[c] ELSE EmptyDict

\* _transaction_frames[c][tx] on the nested defaultdict, without inserting
TxList(T, c, tx) ==
    IF c \in DOMAIN T /\ tx \in DOMAIN T[c] THEN T[c][tx] ELSE <<>>

\* ----------------------------------------------------- the queue store
enqueue(st, d, f) == [st EXCEPT ![d] = Append(@, f)]

requeue(st, d, f) == [st EXCEPT ![d] = <<f>> \o @]

has_frames(st, d) == st[d] # <<>>

\* dequeue returns the head and removes it
dequeue(st, d) == [st EXCEPT ![d] = Tail(@)]

\* ----------------------------------------------------------- log entries
Delivered(c, f) == [k |-> "deliver", c |-> c, f |-> f]
Enqueued(f) == [k |-> "enqueue", c |-> NoConn, f |-> f]
Requeued(f) == [k |-> "requeue", c |-> NoConn, f |-> f]

\* -------------------------------------------------------- private helpers
\* The helpers work on a record of the manager's state:
\*   [Q, P, T, S, out, flight, err]

\* _send_frame without the check for a pending frame
_send_frame_unchecked(s, c, f) ==
    IF c \in Reliable
    THEN [s EXCEPT !.P = Put(s.P, c, f),
                   !.out = Append(@, Delivered(c, f)),
                   !.flight = [@ EXCEPT ![c] = @ + 1]]
    ELSE [s EXCEPT !.out = Append(@, Delivered(c, f))]

\* _send_frame(connection, frame)
_send_frame(s, c, f) ==
    IF c \in Reliable
    THEN IF c \in DOMAIN s.P
         THEN [s EXCEPT !.err = "RuntimeError"]
         ELSE [s EXCEPT !.P = Put(s.P, c, f),
                        !.out = Append(@, Delivered(c, f)),
                        !.flight = [@ EXCEPT ![c] = @ + 1]]
    ELSE [s EXCEPT !.out = Append(@, Delivered(c, f))]

\* FavorReliableSubscriberScheduler.choice: the connections it may return
subscriber_choices(subs) ==
    IF subs \cap Reliable # {} THEN subs \cap Reliable ELSE subs

\* RandomQueueScheduler.choice: the destinations it may return
queue_choices(eligible) == eligible

\* send that also considers the subscribers that have a pending frame
send_outcomes_any_subscriber(s, f) ==
    LET s1 == [s EXCEPT !.Q = Put(s.Q, f.dest, Lookup(s.Q, f.dest))]
        subscribers == s1.Q[f.dest]
    IN IF subscribers = {}
       THEN {[s1 EXCEPT !.S = enqueue(s1.S, f.dest, f),
                        !.out = Append(@, Enqueued(f))]}
       ELSE {_send_frame(s1, selected, f) : selected \in subscriber_choices(subscribers)}

\* send that puts the frame it cannot deliver at the head of the queue
send_outcomes_at_head(s, f) ==
    LET s1 == [s EXCEPT !.Q = Put(s.Q, f.dest, Lookup(s.Q, f.dest))]
        subscribers == s1.Q[f.dest] \ DOMAIN s1.P
    IN IF subscribers = {}
       THEN {[s1 EXCEPT !.S = requeue(s1.S, f.dest, f),
                        !.out = Append(@, Enqueued(f))]}
       ELSE {_send_frame(s1, selected, f) : selected \in subscriber_choices(subscribers)}

\* body of send(message) once the destination is known to be set:
\* the set of states it can end in
send_outcomes(s, f) ==
    LET s1 == [s EXCEPT !.Q = Put(s.Q, f.dest, Lookup(s.Q, f.dest))]
        subscribers == s1.Q[f.dest] \ DOMAIN s1.P
    IN IF subscribers = {}
       THEN {[s1 EXCEPT !.S = enqueue(s1.S, f.dest, f),
                        !.out = Append(@, Enqueued(f))]}
       ELSE {_send_frame(s1, selected, f) : selected \in subscriber_choices(subscribers)}

\* the non-reliable branch of _send_backlog: every stored frame, in order
RECURSIVE send_all(_, _, _)
send_all(s, c, d) ==
    IF s.S[d] = <<>> \/ s.err # "none"
    THEN s
    ELSE send_all(_send_frame([s EXCEPT !.S = dequeue(s.S, d)], c, Head(s.S[d])), c, d)

\* _send_backlog that hands a single frame to every kind of connection
_send_backlog_one(s, c, d) ==
    IF has_frames(s.S, d)
    THEN _send_frame([s EXCEPT !.S = dequeue(s.S, d)], c, Head(s.S[d]))
    ELSE s

\* _send_backlog(connection, destination)
_send_backlog(s, c, d) ==
    IF c \in Reliable
    THEN IF has_frames(s.S, d)
         THEN _send_frame([s EXCEPT !.S = dequeue(s.S, d)], c, Head(s.S[d]))
         ELSE s
    ELSE send_all(s, c, d)

\* every destination that has frames, subscribed to or not
eligible_queues_any(s, c) ==
    {d \in Dests : has_frames(s.S, d)}

\* the destinations _send_subscriber_backlog may choose from
eligible_queues(s, c) ==
    {d \in DOMAIN s.Q : c \in s.Q[d] /\ has_frames(s.S, d)}

\* _send_subscriber_backlog(connection): the set of states it can end in
_send_subscriber_backlog(s, c) ==
    IF eligible_queues(s, c) = {}
    THEN {s}
    ELSE {_send_frame([s EXCEPT !.S = dequeue(s.S, selected)], c, Head(s.S[selected]))
            : selected \in queue_choices(eligible_queues(s, c))}

\* the loop run from the last frame to the first
RECURSIVE resend_outcomes_reversed(_, _)
resend_outcomes_reversed(s, frames) ==
    IF frames = <<>>
    THEN {s}
    ELSE UNION {resend_outcomes_reversed(s1, SubSeq(frames, 1, Len(frames) - 1))
                   : s1 \in send_outcomes(s, frames[Len(frames)])}

\* the loop of resend_transaction_frames over a list of frames
RECURSIVE resend_outcomes(_, _)
resend_outcomes(s, frames) ==
    IF frames = <<>>
    THEN {s}
    ELSE UNION {resend_outcomes(s1, Tail(frames)) : s1 \in send_outcomes(s, Head(frames))}

\* ------------------------------------------------------------------ state
Now == [Q |-> _queues, P |-> _pending, T |-> _transaction_frames, S |-> store,
        out |-> <<>>, flight |-> flight, err |-> "none"]

Op(name, c, d, id, tx, err) ==
    [name |-> name, c |-> c, d |-> d, id |-> id, tx |-> tx, err |-> err]

\* the manager's state after an operation that ended in s
Becomes(s, name, c, d, id, tx) ==
    /\ _queues' = s.Q
    /\ _pending' = s.P
    /\ _transaction_frames' = s.T
    /\ store' = s.S
    /\ out' = s.out
    /\ flight' = s.flight
    /\ op' = Op(name, c, d, id, tx, s.err)

Init ==
    /\ _queues = EmptyDict
    /\ _pending = EmptyDict
    /\ _transaction_frames = EmptyDict
    /\ store = [d \in Dests |-> <<>>]
    /\ nextId = 1
    /\ op = Op("init", NoConn, NoDest, 0, NoTx, "none")
    /\ out = <<>>
    /\ flight = [c \in Conns |-> 0]

\* --------------------------------------------------------- public methods
subscribe(c, d) ==
    LET s1 == [Now EXCEPT !.Q = Put(_queues, d, Lookup(_queues, d) \cup {c})]
    IN /\ Becomes(_send_backlog(s1, c, d), "subscribe", c, d, 0, NoTx)
       /\ UNCHANGED nextId

\* unsubscribe that also takes the pending frame of the connection back
unsubscribe_and_requeue(c, d) ==
    LET members == Lookup(_queues, d) \ {c}
        s1 == [Now EXCEPT !.Q = IF members = {} THEN Del(_queues, d)
                                ELSE Put(_queues, d, members)]
        s2 == IF c \in DOMAIN _pending
              THEN [s1 EXCEPT !.S = requeue(s1.S, _pending[c].dest, _pending[c]),
                              !.P = Del(s1.P, c),
                              !.flight = [@ EXCEPT ![c] = @ - 1]]
              ELSE s1
    IN /\ Becomes(s2, "unsubscribe", c, d, 0, NoTx)
       /\ UNCHANGED nextId

unsubscribe(c, d) ==
    LET members == Lookup(_queues, d) \ {c}
        s1 == [Now EXCEPT !.Q = IF members = {} THEN Del(_queues, d)
                                ELSE Put(_queues, d, members)]
    IN /\ Becomes(s1, "unsubscribe", c, d, 0, NoTx)
       /\ UNCHANGED nextId

\* store.requeue takes (destination, frame); disconnect passes the frame only,
\* so the call raises before anything is changed.  Without a pending frame the
\* loop runs over the list _queues.keys() returns, so deleting keys in it is safe.
disconnect(c) ==
    LET kept == {d \in DOMAIN _queues : _queues[d] \ {c} # {}}
        s1 == IF c \in DOMAIN _pending
              THEN [Now EXCEPT !.err = "TypeError"]
              ELSE [Now EXCEPT !.Q = [d \in kept |-> _queues[d] \ {c}]]
    IN /\ Becomes(s1, "disconnect", c, NoDest, 0, NoTx)
       /\ UNCHANGED nextId

send(d) ==
    /\ nextId <= MaxMsgs
    /\ \E s1 \in send_outcomes(Now, [id |-> nextId, dest |-> d]) :
          Becomes(s1, "send", NoConn, d, nextId, NoTx)
    /\ nextId' = nextId + 1

send_no_destination ==
    /\ Becomes([Now EXCEPT !.err = "ValueError"], "send", NoConn, NoDest, 0, NoTx)
    /\ UNCHANGED nextId

\* number of frames held in the transaction buffers
BufferedFrames(T) ==
    LET RECURSIVE total(_)
        total(keys) == IF keys = {} THEN 0
                       ELSE LET k == CHOOSE x \in keys : TRUE
                            IN Len(T[k[1]][k[2]]) + total(keys \ {k})
    IN total({k \in (DOMAIN T) \X TxIds : k[2] \in DOMAIN T[k[1]]})

\* ack without the requeue at the head: the unexpected frame goes to the tail
ack_outcomes_enqueue(s, c, id, tx) ==
    IF c \in DOMAIN s.P
    THEN LET pending_frame == s.P[c]
             s1 == IF pending_frame.id # id
                   THEN [s EXCEPT !.S = enqueue(s.S, pending_frame.dest, pending_frame),
                                  !.out = Append(@, Requeued(pending_frame))]
                   ELSE s
             s2 == IF tx # NoTx
                   THEN [s1 EXCEPT !.T = Put(s.T, c,
                            Put(TxDict(s.T, c), tx, Append(TxList(s.T, c, tx), pending_frame)))]
                   ELSE s1
             s3 == [s2 EXCEPT !.P = Del(s.P, c),
                              !.flight = [@ EXCEPT ![c] = @ - 1]]
         IN _send_subscriber_backlog(s3, c)
    ELSE {s}

\* ack that returns every acknowledged frame to the store
ack_outcomes_requeue_always(s, c, id, tx) ==
    IF c \in DOMAIN s.P
    THEN LET pending_frame == s.P[c]
             s1 == [s EXCEPT !.S = requeue(s.S, pending_frame.dest, pending_frame),
                             !.out = Append(@, Requeued(pending_frame))]
             s2 == IF tx # NoTx
                   THEN [s1 EXCEPT !.T = Put(s.T, c,
                            Put(TxDict(s.T, c), tx, Append(TxList(s.T, c, tx), pending_frame)))]
                   ELSE s1
             s3 == [s2 EXCEPT !.P = Del(s.P, c),
                              !.flight = [@ EXCEPT ![c] = @ - 1]]
         IN _send_subscriber_backlog(s3, c)
    ELSE {s}

\* body of ack(connection, frame, transaction): the set of states it can end in
ack_outcomes(s, c, id, tx) ==
    IF c \in DOMAIN s.P
    THEN LET pending_frame == s.P[c]
             s1 == IF pending_frame.id # id
                   THEN [s EXCEPT !.S = requeue(s.S, pending_frame.dest, pending_frame),
                                  !.out = Append(@, Requeued(pending_frame))]
                   ELSE s
             s2 == IF tx # NoTx
                   THEN [s1 EXCEPT !.T = Put(s.T, c,
                            Put(TxDict(s.T, c), tx, Append(TxList(s.T, c, tx), pending_frame)))]
                   ELSE s1
             s3 == [s2 EXCEPT !.P = Del(s.P, c),
                              !.flight = [@ EXCEPT ![c] = @ - 1]]
         IN _send_subscriber_backlog(s3, c)
    ELSE {s}

ack(c, id, tx) ==
    /\ tx # NoTx => BufferedFrames(_transaction_frames) < MaxTxLen
    /\ \E s1 \in ack_outcomes(Now, c, id, tx) : Becomes(s1, "ack", c, NoDest, id, tx)
    /\ UNCHANGED nextId

\* number of frames held in the store
StoredFrames(st) ==
    LET RECURSIVE total(_)
        total(ds) == IF ds = {} THEN 0
                     ELSE LET d == CHOOSE x \in ds : TRUE
                          IN Len(st[d]) + total(ds \ {d})
    IN total(Dests)

resend_transaction_frames(c, tx) ==
    LET frames == TxList(_transaction_frames, c, tx)
        s1 == [Now EXCEPT !.T = Put(_transaction_frames, c,
                                    Put(TxDict(_transaction_frames, c), tx, frames))]
    IN /\ StoredFrames(store) + Len(frames) <= MaxStore
       /\ \E s2 \in resend_outcomes(s1, frames) :
             Becomes(s2, "resend", c, NoDest, 0, tx)
       /\ UNCHANGED nextId

\* clear that drops every transaction of the connection
clear_outcome_all(s, c, tx) ==
    IF tx \in DOMAIN TxDict(s.T, c)
    THEN [s EXCEPT !.T = Put(s.T, c, EmptyDict)]
    ELSE [s EXCEPT !.T = Put(s.T, c, TxDict(s.T, c)), !.err = "KeyError"]

\* body of clear_transaction_frames(connection, transaction)
clear_outcome(s, c, tx) ==
    IF tx \in DOMAIN TxDict(s.T, c)
    THEN [s EXCEPT !.T = Put(s.T, c, Del(TxDict(s.T, c), tx))]
    ELSE [s EXCEPT !.T = Put(s.T, c, TxDict(s.T, c)), !.err = "KeyError"]

clear_transaction_frames(c, tx) ==
    /\ Becomes(clear_outcome(Now, c, tx), "clear", c, NoDest, 0, tx)
    /\ UNCHANGED nextId

\* the message-ids a client ACKs: the one it was sent, or one it was not
AckIds(c) == {NoId} \cup {_pending[x].id : x \in {c} \cap DOMAIN _pending}

\* the operations the callers can issue: subs are the connections that
\* subscribe, unsubscribe and disconnect, clients those that ACK, abort and
\* commit, txs the transaction ids and dests the destinations they use
NextOver(subs, clients, txs, dests) ==
    \/ \E c \in subs, d \in dests : subscribe(c, d)
    \/ \E c \in subs, d \in dests : unsubscribe(c, d)
    \/ \E c \in subs : disconnect(c)
    \/ \E d \in dests : send(d)
    \/ send_no_destination
    \/ \E c \in clients, tx \in txs \cup {NoTx} : \E id \in AckIds(c) : ack(c, id, tx)
    \/ \E c \in clients, tx \in txs : resend_transaction_frames(c, tx)
    \/ \E c \in clients, tx \in txs : clear_transaction_frames(c, tx)

\* three connections (c1 and c2 reliable, c3 not), c1 the client that ACKs
\* and uses a transaction, one destination
Next == NextOver({"c1", "c2", "c3"}, {"c1"}, {"t1"}, {"d1"})

Spec == Init /\ [][Next]_vars

\* one reliable connection over two destinations
NextDests == NextOver({"c1"}, {"c1"}, {"t1"}, Dests)

SpecDests == Init /\ [][NextDests]_vars

\* two clients and two transaction ids
NextTx == NextOver({"c1"}, {"c1", "c2"}, TxIds, {"d1"})

SpecTx == Init /\ [][NextTx]_vars

\* the callers of a manager whose reliable connection ACKs every frame it is
\* handed, with the message-id of that frame, before anything else is called
NextPrompt ==
    \/ _pending = EmptyDict /\ \E c \in {"c1", "c3"} : subscribe(c, "d1")
    \/ _pending = EmptyDict /\ \E c \in {"c1", "c3"} : unsubscribe(c, "d1")
    \/ _pending = EmptyDict /\ \E c \in {"c1", "c3"} : disconnect(c)
    \/ _pending = EmptyDict /\ send("d1")
    \/ _pending = EmptyDict /\ send_no_destination
    \/ \E c \in {"c1"}, tx \in {"t1", NoTx} :
          ack(c, IF c \in DOMAIN _pending THEN _pending[c].id ELSE NoId, tx)
    \/ _pending = EmptyDict /\ resend_transaction_frames("c1", "t1")
    \/ _pending = EmptyDict /\ clear_transaction_frames("c1", "t1")

SpecPrompt == Init /\ [][NextPrompt]_vars

\* the callers of a manager with two reliable connections on one destination
NextLive ==
    \/ \E c \in {"c1", "c2"} : subscribe(c, "d1")
    \/ \E c \in {"c1", "c2"} : unsubscribe(c, "d1")
    \/ \E c \in {"c1", "c2"} : disconnect(c)
    \/ send("d1")
    \/ send_no_destination
    \/ \E c \in {"c1", "c2"} : \E id \in AckIds(c) : ack(c, id, NoTx)
    \/ \E id \in AckIds("c1") : ack("c1", id, "t1")
    \/ resend_transaction_frames("c1", "t1")
    \/ clear_transaction_frames("c1", "t1")

\* connection c ACKs the frame it was handed, with the message-id of the frame
PromptAck(c) == c \in DOMAIN _pending /\ ack(c, _pending[c].id, NoTx)

\* The manager has no thread or timer of its own: it runs only when it is
\* called.  The fairness is that of the clients: a reliable connection that
\* is handed frames again and again ACKs them with the matching message-id.
SpecLive ==
    Init /\ [][NextLive]_vars /\ \A c \in {"c1", "c2"} : SF_vars(PromptAck(c))

\* ------------------------------------------------- vocabulary of the claims
\* the frame a send operation was called with
SentFrame(o) == [id |-> o.id, dest |-> o.d]

\* how often f occurs in a list of frames
Occurrences(frames, f) == Cardinality({i \in DOMAIN frames : frames[i] = f})

\* how often f occurs in the store
Stored(st, f) ==
    Cardinality({k \in Dests \X (1..StoredFrames(st)) :
                    k[2] \in DOMAIN st[k[1]] /\ st[k[1]][k[2]] = f})

\* how many connections have f as their pending frame
Pending(P, f) == Cardinality({c \in DOMAIN P : P[c] = f})

\* the deliveries recorded in a log, in order
RECURSIVE Deliveries(_)
Deliveries(log) ==
    IF log = <<>> THEN <<>>
    ELSE IF Head(log).k = "deliver" THEN <<Head(log)>> \o Deliveries(Tail(log))
    ELSE Deliveries(Tail(log))

\* how many frames a log hands to connection c
HandedTo(log, c) == Cardinality({i \in DOMAIN log : log[i].k = "deliver" /\ log[i].c = c})

\* how often a log hands frame f to a non-reliable connection
HandedUnreliable(log, f) ==
    Cardinality({i \in DOMAIN log :
                    log[i].k = "deliver" /\ log[i].c \notin Reliable /\ log[i].f = f})

InPending(P, c) == IF c \in DOMAIN P THEN 1 ELSE 0

\* ------------------------------------------------------------------- C1
\* C1: every destination that is a key of the subscription registry maps to
\* a non-empty set of connections, also after a send to a destination that
\* has no subscribers.
C1_RegistryNonEmpty == \A d \in DOMAIN _queues : _queues[d] # {}

\* ------------------------------------------------------------------- C2
\* how often the operation recorded in o, run in the state before it, accepted
\* frame f through send
Accepted(o, T, f) ==
    IF o.name = "send" /\ o.err = "none" THEN (IF SentFrame(o) = f THEN 1 ELSE 0)
    ELSE IF o.name = "resend" THEN Occurrences(TxList(T, o.c, o.tx), f)
    ELSE 0

\* 1 when the operation recorded in o acknowledged f, the frame pending for
\* its connection, with the matching message-id
Acked(o, P, f) ==
    IF o.name = "ack" /\ o.c \in DOMAIN P /\ P[o.c] = f /\ o.id = f.id THEN 1 ELSE 0

\* C2: no frame is lost.  Over every operation, whether it returns or fails,
\* a frame is held in the store or in the pending table at least as often as
\* before, plus once for each time send accepted it, minus once for each time
\* it was handed to a non-reliable connection or ACKed: a frame taken out of
\* the store is recorded as pending or handed to a non-reliable connection by
\* the end of the operation.
C2_NoFrameLost ==
    [][\A f \in Frames :
          Stored(store', f) + Pending(_pending', f)
            >= Stored(store, f) + Pending(_pending, f)
               + Accepted(op', _transaction_frames, f)
               - HandedUnreliable(out', f) - Acked(op', _pending, f)]_vars

\* ------------------------------------------------------------------- C3
\* C3 as stated: counting every ACK received from a reliable connection c,
\* the frames handed to c minus the ACKs received from c is 1 if c has a
\* pending frame and 0 otherwise.  It holds initially (0 = 0), so it holds in
\* every state exactly if every operation changes both sides alike.
C3_InFlightAllAcks ==
    [][\A c \in Reliable :
          HandedTo(out', c) - (IF op'.name = "ack" /\ op'.c = c THEN 1 ELSE 0)
            = InPending(_pending', c) - InPending(_pending, c)]_vars

\* C3 (amended): for every reliable connection c, the frames handed to c minus
\* the ACKs from c that found a pending frame is 1 if c has a pending frame
\* and 0 otherwise.
C3_InFlight == \A c \in Reliable : flight[c] = InPending(_pending, c)

\* a reliable connection was handed a frame, ACKed it, and was handed the next
C3_Witness ==
    /\ op.name = "ack" /\ op.c \in Reliable /\ op.err = "none"
    /\ HandedTo(out, op.c) = 1
    /\ op.c \in DOMAIN _pending
    /\ flight[op.c] = 1

\* ------------------------------------------------------------------- C4
\* C4: send(m) to destination d.  If no connection of R[d] is outside P, m is
\* appended to the store for d, nothing is delivered and has_frames(d) is
\* true; otherwise m is delivered to exactly one connection of R[d] that is
\* not in P and is not stored.  A later subscribe(c, d) by a connection
\* without a pending frame delivers the frame at the head of d's backlog.
C4_SendDispatch ==
    [][/\ (op'.name = "send" /\ op'.d \in Dests) =>
            LET d == op'.d
                m == SentFrame(op')
                eligible == Lookup(_queues, d) \ DOMAIN _pending
            IN /\ op'.err = "none"
               /\ IF eligible = {}
                  THEN /\ store' = [store EXCEPT ![d] = Append(@, m)]
                       /\ Deliveries(out') = <<>>
                       /\ _pending' = _pending
                       /\ store'[d] # <<>>
                  ELSE /\ store' = store
                       /\ \E c \in eligible :
                             /\ Deliveries(out') = <<Delivered(c, m)>>
                             /\ DOMAIN _pending' = DOMAIN _pending \cup ({c} \cap Reliable)
                             /\ \A x \in DOMAIN _pending' :
                                   _pending'[x] = IF x = c THEN m ELSE _pending[x]
       /\ (op'.name = "subscribe" /\ op'.c \notin DOMAIN _pending /\ store[op'.d] # <<>>) =>
            /\ op'.err = "none"
            /\ Deliveries(out') # <<>>
            /\ Deliveries(out')[1] = Delivered(op'.c, Head(store[op'.d]))
      ]_vars

\* a send stored its frame because every subscriber of the destination was busy
C4_Witness ==
    /\ op.name = "send" /\ op.err = "none"
    /\ out = <<Enqueued(SentFrame(op))>>
    /\ Lookup(_queues, op.d) # {}
    /\ Lookup(_queues, op.d) \subseteq DOMAIN _pending
    /\ store[op.d] # <<>>

\* ------------------------------------------------------------------- C5
\* the store as the backlog drain of an ack finds it: the pending frame is
\* back at the head of its destination when the ACK named another message-id
AtDrain(st, pending, id) ==
    IF pending.id = id THEN st
    ELSE [st EXCEPT ![pending.dest] = <<pending>> \o @]

\* the destinations c is subscribed to that have frames in st
Backlog(Q, st, c) == {d \in DOMAIN Q : c \in Q[d] /\ st[d] # <<>>}

\* C5: when ack(c, frame) finds c in P and removes the entry, the backlog
\* drain runs.  If a destination c is subscribed to has frames, exactly one
\* frame, the head of one such destination, is dequeued, delivered to c and
\* recorded as P[c]; otherwise nothing is delivered, c has no entry in P and
\* the store is left as it was.  No frame of a destination c is not
\* subscribed to is handed to c.
C5_AckDrain ==
    [][(op'.name = "ack" /\ op'.c \in DOMAIN _pending) =>
          LET c == op'.c
              st == AtDrain(store, _pending[c], op'.id)
          IN /\ op'.err = "none"
             /\ IF Backlog(_queues, st, c) = {}
                THEN /\ Deliveries(out') = <<>>
                     /\ c \notin DOMAIN _pending'
                     /\ store' = st
                ELSE \E d \in Backlog(_queues, st, c) :
                        /\ Deliveries(out') = <<Delivered(c, Head(st[d]))>>
                        /\ c \in DOMAIN _pending'
                        /\ _pending'[c] = Head(st[d])
                        /\ store' = [st EXCEPT ![d] = Tail(@)]
      ]_vars

\* an ack drained one frame to its connection while a destination the
\* connection is not subscribed to kept its backlog
C5_Witness ==
    /\ op.name = "ack" /\ op.err = "none"
    /\ HandedTo(out, op.c) = 1
    /\ op.c \in DOMAIN _pending
    /\ \E d \in Dests : op.c \notin Lookup(_queues, d) /\ store[d] # <<>>

\* ------------------------------------------------------------------- C6
\* the operation recorded in o is an ACK by a connection with a pending frame
\* in P that names that frame's message-id
MatchingAck(o, P) == o.name = "ack" /\ o.c \in DOMAIN P /\ P[o.c].id = o.id

\* the operation recorded in o is an ACK by a connection with a pending frame
\* in P that names another message-id
MismatchedAck(o, P) == o.name = "ack" /\ o.c \in DOMAIN P /\ P[o.c].id # o.id

\* no frame is put into the store by the operation that logged log
NothingStored(log) == \A i \in DOMAIN log : log[i].k = "deliver"

\* C6 as stated: after a frame m was delivered to a reliable connection c, a
\* matching ack(c, m') leaves P empty for c and does not re-enqueue m.
C6_RoundTripLeavesPendingEmpty ==
    [][MatchingAck(op', _pending) =>
          /\ op'.c \notin DOMAIN _pending'
          /\ Stored(store', _pending[op'.c]) <= Stored(store, _pending[op'.c])
      ]_vars

\* C6 (amended): a matching ack(c, m') takes m out of P and puts no frame into
\* the store.  P is then empty for c exactly if no destination c is
\* subscribed to has backlog; otherwise P[c] is the head frame of one such
\* destination, handed to c by the backlog drain.
C6_RoundTrip ==
    [][MatchingAck(op', _pending) =>
          LET c == op'.c
          IN /\ op'.err = "none"
             /\ NothingStored(out')
             /\ \A f \in Frames : Stored(store', f) <= Stored(store, f)
             /\ c \notin DOMAIN _pending' <=> Backlog(_queues, store, c) = {}
             /\ c \in DOMAIN _pending' =>
                   \E d \in Backlog(_queues, store, c) :
                      /\ _pending'[c] = Head(store[d])
                      /\ out' = <<Delivered(c, Head(store[d]))>>
      ]_vars

\* a matching ACK was followed by the delivery of the next stored frame, which
\* is now pending
C6_Witness ==
    /\ op.name = "ack" /\ op.id # NoId /\ op.err = "none"
    /\ op.c \in DOMAIN _pending
    /\ _pending[op.c].id # op.id
    /\ out = <<Delivered(op.c, _pending[op.c])>>

\* ------------------------------------------------------------------- C7
\* C7 as stated: when c has pending frame m1 and ACKs another message-id,
\* after the operation m1 is at the head of the store for m1's destination,
\* ahead of the frames already stored there, and P[c] is cleared.
C7_MismatchLeavesFrameStored ==
    [][MismatchedAck(op', _pending) =>
          LET m1 == _pending[op'.c]
          IN /\ store'[m1.dest] = <<m1>> \o store[m1.dest]
             /\ op'.c \notin DOMAIN _pending'
      ]_vars

\* C7 (amended): when c has pending frame m1 and ACKs another message-id, m1
\* is requeued at the head of the store for m1's destination and P[c] is
\* cleared; the backlog drain then runs on that store.  If c is subscribed to
\* no destination with backlog, the store holds m1 ahead of the frames already
\* stored and c has no entry in P; otherwise c is handed the head frame of one
\* such destination (m1 again when that is m1's destination), which becomes
\* P[c].
C7_Mismatch ==
    [][MismatchedAck(op', _pending) =>
          LET c == op'.c
              m1 == _pending[c]
              st == [store EXCEPT ![m1.dest] = <<m1>> \o @]
          IN /\ op'.err = "none"
             /\ out'[1] = Requeued(m1)
             /\ IF Backlog(_queues, st, c) = {}
                THEN /\ store' = st
                     /\ c \notin DOMAIN _pending'
                     /\ out' = <<Requeued(m1)>>
                ELSE \E d \in Backlog(_queues, st, c) :
                        /\ store' = [st EXCEPT ![d] = Tail(@)]
                        /\ c \in DOMAIN _pending'
                        /\ _pending'[c] = Head(st[d])
                        /\ out' = <<Requeued(m1), Delivered(c, Head(st[d]))>>
                        /\ d = m1.dest => _pending'[c] = m1
      ]_vars

\* after a mismatched ACK the requeued frame was handed to the same connection
\* again, ahead of a frame stored earlier
C7_Witness ==
    /\ op.name = "ack" /\ op.id = NoId /\ op.err = "none"
    /\ Len(out) = 2
    /\ out[1].k = "requeue"
    /\ out[2] = Delivered(op.c, out[1].f)
    /\ op.c \in DOMAIN _pending /\ _pending[op.c] = out[1].f
    /\ store[out[1].f.dest] # <<>>

\* ------------------------------------------------------------------- C8
\* C8: resend_transaction_frames(c, tx) dispatches the frames ACKed under tx
\* once each, in ACK order: every frame is delivered to one subscriber of its
\* destination that has no pending frame (c or another), or is returned to
\* the store if there is none, and nothing else is delivered or stored.
C8_AbortResends ==
    [][op'.name = "resend" =>
          LET frames == TxList(_transaction_frames, op'.c, op'.tx)
          IN /\ op'.err = "none"
             /\ Len(out') = Len(frames)
             /\ \A i \in DOMAIN frames :
                   /\ out'[i].f = frames[i]
                   /\ \/ out'[i].k = "enqueue"
                      \/ /\ out'[i].k = "deliver"
                         /\ out'[i].c \in Lookup(_queues, frames[i].dest)
                         /\ out'[i].c \in Reliable =>
                               /\ out'[i].c \in DOMAIN _pending' \ DOMAIN _pending
                               /\ _pending'[out'[i].c] = frames[i]
             /\ \A f \in Frames :
                   /\ Stored(store', f) =
                         Stored(store, f)
                         + Cardinality({i \in DOMAIN out' : out'[i] = Enqueued(f)})
                   /\ Pending(_pending', f) + HandedUnreliable(out', f) =
                         Pending(_pending, f)
                         + Cardinality({i \in DOMAIN out' :
                                           out'[i].k = "deliver" /\ out'[i].f = f})
      ]_vars

\* an abort re-sent two different frames: the first was delivered again, the
\* second went back to the store
C8_Witness ==
    /\ op.name = "resend" /\ op.err = "none"
    /\ Len(out) = 2
    /\ out[1].f # out[2].f
    /\ out[1].k = "deliver" /\ out[2].k = "enqueue"
    /\ TxList(_transaction_frames, op.c, op.tx) = <<out[1].f, out[2].f>>

\* ------------------------------------------------------------------- C9
\* C9: T[c][tx] holds exactly the frames c acknowledged under tx since the
\* last clear_transaction_frames(c, tx), in ACK order.  It is empty
\* initially, so it holds in every state exactly if every operation keeps it:
\* an ACK by c under tx that names the pending frame's message-id appends that
\* frame, clear_transaction_frames(c, tx) empties the list, and nothing else
\* changes it.
C9_TxBufferExact ==
    [][\A c \in Conns, tx \in TxIds :
          TxList(_transaction_frames', c, tx) =
             IF MatchingAck(op', _pending) /\ op'.c = c /\ op'.tx = tx
             THEN Append(TxList(_transaction_frames, c, tx), _pending[c])
             ELSE IF op'.name = "clear" /\ op'.c = c /\ op'.tx = tx
             THEN <<>>
             ELSE TxList(_transaction_frames, c, tx)
      ]_vars

\* ------------------------------------------------------------------ C10
\* the transaction ids for which connection c has an entry in T
TxKeys(T, c) == IF c \in DOMAIN T THEN DOMAIN T[c] ELSE {}

\* the entries of T other than the one of (c, tx) are the same in T1 and T2
OthersSame(T1, T2, c, tx) ==
    \A c2 \in Conns, tx2 \in TxIds :
       (c2 # c \/ tx2 # tx) =>
          /\ tx2 \in TxKeys(T1, c2) <=> tx2 \in TxKeys(T2, c2)
          /\ TxList(T1, c2, tx2) = TxList(T2, c2, tx2)

\* C10: resend_transaction_frames(c, tx) leaves T[c][tx] as it is (an entry
\* is still present with the same frames); clear_transaction_frames(c, tx)
\* discards T[c][tx], so that a resend_transaction_frames(c, tx) that follows
\* re-sends nothing; neither changes the entry of another connection or
\* transaction id.
C10_TxFrameEffect ==
    [][/\ op'.name = "resend" =>
            /\ op'.tx \in TxKeys(_transaction_frames', op'.c)
            /\ _transaction_frames'[op'.c][op'.tx] =
                  TxList(_transaction_frames, op'.c, op'.tx)
            /\ OthersSame(_transaction_frames, _transaction_frames', op'.c, op'.tx)
       /\ op'.name = "clear" =>
            /\ op'.tx \notin TxKeys(_transaction_frames', op'.c)
            /\ OthersSame(_transaction_frames, _transaction_frames', op'.c, op'.tx)
       /\ (op.name = "clear" /\ op'.name = "resend" /\ op'.c = op.c /\ op'.tx = op.tx) =>
            out' = <<>>
      ]_vars

\* a transaction that held a frame was cleared while another transaction of
\* the same connection keeps its frame
C10_Witness ==
    /\ op.name = "clear" /\ op.err = "none"
    /\ op.tx \notin TxKeys(_transaction_frames, op.c)
    /\ \E tx \in TxKeys(_transaction_frames, op.c) :
          _transaction_frames[op.c][tx] # <<>>

\* ------------------------------------------------------------------ C11
\* C11: after disconnect(c), called in whatever state, c is a member of no
\* set of the subscription registry, has no entry in the pending table and
\* has no entry in the transaction buffers.
C11_DisconnectForgets ==
    op.name = "disconnect" =>
       /\ \A d \in DOMAIN _queues : op.c \notin _queues[d]
       /\ op.c \notin DOMAIN _pending
       /\ op.c \notin DOMAIN _transaction_frames

\* ------------------------------------------------------------------ C12
\* C12: disconnect(c) while c has a pending frame m puts m back into the
\* store, at the head of the queue of m's destination, and leaves the frames
\* stored for every other destination as they were.
C12_DisconnectRequeues ==
    [][(op'.name = "disconnect" /\ op'.c \in DOMAIN _pending) =>
          LET m == _pending[op'.c]
          IN store' = [store EXCEPT ![m.dest] = <<m>> \o @]
      ]_vars

\* ------------------------------------------------------------------ C13
\* the deliveries of a list of frames to c, in the order of the list
DeliveredInOrder(c, frames) == [i \in DOMAIN frames |-> Delivered(c, frames[i])]

\* C13: subscribe(c, d) and the backlog of d.  A reliable c without a pending
\* frame takes at most one frame, the head of d's backlog, which is delivered
\* to it and recorded as P[c], and the rest of the backlog stays in the store;
\* a non-reliable c is delivered every frame stored for d, in the order of
\* the store, after which the store is empty for d and P is as it was.
C13_SubscribeBacklog ==
    [][(op'.name = "subscribe" /\ (op'.c \in Reliable => op'.c \notin DOMAIN _pending)) =>
          LET c == op'.c
              d == op'.d
          IN /\ op'.err = "none"
             /\ c \in _queues'[d]
             /\ IF c \in Reliable
                THEN IF store[d] = <<>>
                     THEN /\ Deliveries(out') = <<>>
                          /\ _pending' = _pending
                          /\ store' = store
                     ELSE /\ Deliveries(out') = <<Delivered(c, Head(store[d]))>>
                          /\ _pending' = Put(_pending, c, Head(store[d]))
                          /\ store' = [store EXCEPT ![d] = Tail(@)]
                ELSE /\ Deliveries(out') = DeliveredInOrder(c, store[d])
                     /\ _pending' = _pending
                     /\ store' = [store EXCEPT ![d] = <<>>]
      ]_vars

\* a non-reliable connection subscribed and was delivered a backlog of two
\* frames
C13_Witness ==
    /\ op.name = "subscribe" /\ op.err = "none"
    /\ op.c \notin Reliable
    /\ Len(Deliveries(out)) = 2
    /\ store[op.d] = <<>>

\* ------------------------------------------------------------------ C14
\* C14: subscribe(c, d) by a reliable connection that still has a pending
\* frame delivers no second frame to c, leaves P as it was and returns
\* without the "already has a pending frame" error of _send_frame; no
\* sequence of public operations makes any operation end in that error.
C14_BusySubscribe ==
    [][/\ op'.err # "RuntimeError"
       /\ (op'.name = "subscribe" /\ op'.c \in Reliable /\ op'.c \in DOMAIN _pending) =>
             /\ op'.err = "none"
             /\ Deliveries(out') = <<>>
             /\ _pending' = _pending
      ]_vars

\* ------------------------------------------------------------------ C15
\* the frames an operation passed on, delivered or stored, in order
FramesOf(log) == [i \in DOMAIN log |-> log[i].f]

\* C15: unsubscribe(c, d) changes the subscription registry only: c leaves
\* R[d], and P, T and the store are as they were, nothing is delivered.  A
\* frame pending for c is therefore still there to be ACKed afterwards, and a
\* transaction of c can still be aborted, re-sending its frames.
C15_UnsubscribeRegistryOnly ==
    [][/\ op'.name = "unsubscribe" =>
            /\ op'.err = "none"
            /\ out' = <<>>
            /\ _pending' = _pending
            /\ _transaction_frames' = _transaction_frames
            /\ store' = store
            /\ \A d \in Dests :
                  Lookup(_queues', d) =
                     IF d = op'.d THEN Lookup(_queues, d) \ {op'.c} ELSE Lookup(_queues, d)
       /\ (op.name = "unsubscribe" /\ MatchingAck(op', _pending) /\ op'.c = op.c) =>
            /\ op'.err = "none"
            /\ \A i \in DOMAIN out' : out'[i].k # "requeue"
            /\ op'.c \in DOMAIN _pending' => _pending'[op'.c] # _pending[op'.c]
       /\ (op.name = "unsubscribe" /\ op'.name = "resend" /\ op'.c = op.c) =>
            /\ op'.err = "none"
            /\ FramesOf(out') = TxList(_transaction_frames, op'.c, op'.tx)
      ]_vars

\* a connection unsubscribed from the destination of its pending frame while
\* one of its transactions holds a frame
C15_Witness ==
    /\ op.name = "unsubscribe" /\ op.err = "none"
    /\ op.c \in DOMAIN _pending
    /\ _pending[op.c].dest = op.d
    /\ op.c \notin Lookup(_queues, op.d)
    /\ \E tx \in TxKeys(_transaction_frames, op.c) :
          _transaction_frames[op.c][tx] # <<>>

\* ------------------------------------------------------------------ C16
\* the operation recorded in o, run in the state (Q, P, T), is an ACK from a
\* connection without a pending frame, an unsubscribe of a connection that
\* is not subscribed to the destination, or a disconnect of a connection the
\* manager holds nothing for
Spurious(o, Q, P, T) ==
    \/ o.name = "ack" /\ o.c \notin DOMAIN P
    \/ o.name = "unsubscribe" /\ o.c \notin Lookup(Q, o.d)
    \/ /\ o.name = "disconnect"
       /\ \A d \in DOMAIN Q : o.c \notin Q[d]
       /\ o.c \notin DOMAIN P
       /\ o.c \notin DOMAIN T

\* C16: a spurious operation (an ACK from a connection without a pending
\* frame, with or without a transaction; an unsubscribe of a non-subscriber;
\* a disconnect of an unknown connection) raises no error and leaves R, P, T
\* and the store unchanged, so that doing it twice is the same as doing it
\* once.
C16_SpuriousNoOp ==
    [][Spurious(op', _queues, _pending, _transaction_frames) =>
          /\ op'.err = "none"
          /\ _queues' = _queues
          /\ _pending' = _pending
          /\ _transaction_frames' = _transaction_frames
          /\ store' = store
      ]_vars

\* ------------------------------------------------------------------ C17
\* the frames of destination d in a list of frames, in order
OfDest(frames, d) == SelectSeq(frames, LAMBDA f : f.dest = d)

\* the frames of destination d the operation recorded in o originates, in
\* order: the frame of a send, the buffered frames of a resend
SentTo(o, T, d) ==
    IF o.name = "send" /\ o.err = "none" THEN OfDest(<<SentFrame(o)>>, d)
    ELSE IF o.name = "resend" THEN OfDest(TxList(T, o.c, o.tx), d)
    ELSE <<>>

C18_NoStrandedBacklog ==
    \A d \in DOMAIN _queues :
       store[d] # <<>> => _queues[d] \subseteq DOMAIN _pending

\* ------------------------------------------------------------------ C19
\* C19: eventual delivery.  If from some point on the destination always has
\* a subscriber, and every reliable connection ACKs the frames it is handed
\* with the matching message-id, then every frame in the store for the
\* destination is eventually taken out of the store and handed to a
\* subscriber: the store for the destination is empty again and again,
\* whether or not a further subscribe or send is called.
C19_EventualDelivery ==
    <>[](Lookup(_queues, "d1") # {}) => []<>(store["d1"] = <<>>)

\* ------------------------------------------------------------------ C20
\* C20: no duplication.  With distinct message-ids on the frames sent, every
\* frame is held at most once across the queues of the store and the pending
\* table, and a frame that an ACK records in a transaction buffer is not at
\* the same time in the store or pending, also when the ACK names both a
\* transaction and a message-id other than that of the pending frame.
C20_NoDuplication ==
    [][/\ \A f \in Frames : Stored(store', f) + Pending(_pending', f) <= 1
       /\ (op'.name = "ack" /\ op'.tx # NoTx /\ op'.c \in DOMAIN _pending) =>
             LET m == _pending[op'.c]
             IN /\ Occurrences(TxList(_transaction_frames', op'.c, op'.tx), m) >= 1
                /\ Stored(store', m) + Pending(_pending', m) = 0
      ]_vars
====
